---- MODULE Spec2Model ----
(***************************************************************************)
(* A model of ssh-build-server: the orchestrator (main.rs) and the remote  *)
(* synchronisation / command engine (util/ssh.rs).                         *)
(*                                                                         *)
(* A filesystem is a function from the paths that exist to their nodes; a  *)
(* path is a sequence of names and <<>> is the root, which always exists   *)
(* as a directory.  The remote session's primitives (stat, mkdir,          *)
(* scp_send, scp_recv, readdir, channel_session, exec, ...) are modelled   *)
(* by their contract: stat reflects the remote filesystem; every           *)
(* primitive whose error the code propagates or unwraps may fail           *)
(* (a nondeterministic choice of ok).                                      *)
(***************************************************************************)
EXTENDS Integers, Sequences, FiniteSets, TLC

(***************************************************************************)
(* Bounds of the model.                                                    *)
(***************************************************************************)
MaxLocalEntries == 2
MaxRemoteEntries == 1
MaxCmds == 3

Names == {"a", "b"}
\* File contents: byte sequences, the zero-length file included.
Contents == {<<>>, <<0>>, <<1>>, <<1, 0>>}
\* The content of files that are on the remote side before the run.
OldData == <<2>>

\* 0o755, the permission mode of ssh.rs lines 203 and 231.
FixedMode == 493
\* The mode of the entries that exist before the run (0o644).
OtherMode == 6 * 64 + 4 * 8 + 4
PrivateMode == 6 * 64

(***************************************************************************)
(* Filesystems.                                                            *)
(***************************************************************************)
DirNode(m) == [kind |-> "dir", data |-> <<>>, mode |-> m]
FileNode(d, m) == [kind |-> "file", data |-> d, mode |-> m]

Exists(fs, p) == p = <<>> \/ p \in DOMAIN fs
IsDir(fs, p) == p = <<>> \/ (p \in DOMAIN fs /\ fs[p].kind = "dir")
IsFile(fs, p) == p \in DOMAIN fs /\ fs[p].kind = "file"
Parent(p) == SubSeq(p, 1, Len(p) - 1)
Join(p, n) == Append(p, n)
ChildNames(fs, p) ==
    {q[Len(q)] : q \in {x \in DOMAIN fs : Len(x) = Len(p) + 1 /\ Parent(x) = p}}
Put(fs, p, node) == [q \in DOMAIN fs \cup {p} |-> IF q = p THEN node ELSE fs[q]]
IsPrefix(p, q) == Len(p) <= Len(q) /\ SubSeq(q, 1, Len(p)) = p
Prefixes(p) == {SubSeq(p, 1, i) : i \in 1..Len(p)}

EmptyFs == [q \in {} |-> DirNode(OtherMode)]

\* The well-formed trees of at most n entries (every entry's parent is a
\* directory), with file contents drawn from C.
RECURSIVE TreesUpTo(_, _)
TreesUpTo(n, C) ==
    IF n = 0 THEN {EmptyFs}
    ELSE LET T == TreesUpTo(n - 1, C)
             NewNodes == {DirNode(OtherMode)} \cup {FileNode(d, OtherMode) : d \in C}
         IN T \cup UNION { UNION { { Put(t, Join(p, nm), node) :
                                       nm \in Names \ ChildNames(t, p), node \in NewNodes }
                                    : p \in {<<>>} \cup {q \in DOMAIN t : t[q].kind = "dir"} }
                           : t \in T }

\* The tree t placed under the directory root (root and its ancestors made).
Graft(root, t) ==
    [q \in Prefixes(root) \cup {root \o x : x \in DOMAIN t} |->
        IF q \in Prefixes(root) THEN DirNode(OtherMode)
        ELSE t[SubSeq(q, Len(root) + 1, Len(q))]]

\* The subtree of fs below the directory p, with paths relative to p.
SubTree(fs, p) ==
    LET below == {q \in DOMAIN fs : IsPrefix(p, q) /\ q # p}
    IN [x \in {SubSeq(q, Len(p) + 1, Len(q)) : q \in below} |-> fs[p \o x]]

\* A tree without its permission bits: names, structure and bytes.
Shape(t) == [x \in DOMAIN t |-> [kind |-> t[x].kind, data |-> t[x].data]]

(***************************************************************************)
(* State.                                                                  *)
(***************************************************************************)
VARIABLES
    localFs,    \* the local filesystem
    remoteFs,   \* the remote filesystem
    stack,      \* the call stack of Sbs methods, innermost frame last
    plan,       \* the calls the driver makes, in order
    results,    \* the results of the driver's completed calls, in order
    oplog,      \* every filesystem and session operation attempted, in order
    open,       \* the channels and file handles that are open
    runs,       \* the scripts the remote side has run, each with its exit
                \* status and its output
    raised,     \* the failures raised, in order, each with the stack and the
                \* length of oplog at that moment
    mainPc,     \* the position of main, "off" when Sbs is driven directly
    phases,     \* the phases main has attempted, in order
    reports,    \* the failure messages main has printed, in order
    config,     \* the settings of the run
    localFs0,   \* the local filesystem at the start of the run
    remoteFs0   \* the remote filesystem at the start of the run

vars == <<localFs, remoteFs, stack, plan, results, oplog, open, runs, raised, mainPc, phases,
          reports, config, localFs0, remoteFs0>>
\* What no method of Sbs changes.
driver == <<plan, mainPc, phases, reports, config, localFs0, remoteFs0>>

\* Result values: Ok, Err(kind) and a panic that unwinds the process.
Ok == [kind |-> "Ok", err |-> "", val |-> <<>>]
OkVal(v) == [kind |-> "Ok", err |-> "", val |-> v]
Err(e) == [kind |-> "Err", err |-> e, val |-> <<>>]
Panic(e) == [kind |-> "Panic", err |-> e, val |-> <<>>]

Frame(fn, l, r, pc) ==
    [fn |-> fn, l |-> l, r |-> r, pc |-> pc, todo |-> {}, cur |-> "", idx |-> 1,
     len |-> 0, cmds |-> <<>>, flag |-> FALSE, script |-> <<>>, out |-> <<>>]
Call(fn, l, r) == [fn |-> fn, l |-> l, r |-> r, cmds |-> <<>>, flag |-> FALSE]
ExecCall(cmds, flag) ==
    [fn |-> "execute_commands", l |-> <<>>, r |-> <<>>, cmds |-> cmds, flag |-> flag]

Top == stack[Len(stack)]
Depth == Len(stack)
Running(fn, pc) == stack # <<>> /\ Top.fn = fn /\ Top.pc = pc
SetTop(f) == [stack EXCEPT ![Len(stack)] = f]
Goto(pc) == SetTop([Top EXCEPT !.pc = pc])
Front(s) == SubSeq(s, 1, Len(s) - 1)

Op(side, op, path, mode, len) ==
    [side |-> side, op |-> op, path |-> path, mode |-> mode, len |-> len]
Logged(ops) == oplog' = oplog \o ops

\* A mutant of Propagate: the caller goes on whatever the callee returned.
PropagateSwallow(callers, res) == callers

\* What is left of the callers once a callee has returned res: Ok lets the
\* caller go on; an error is returned by every caller in turn (the ? of
\* ssh.rs lines 198 and 279), and a panic unwinds them all.
Propagate(callers, res) == IF res.kind = "Ok" THEN callers ELSE <<>>

\* A mutant of Return: the handles of the returning frame stay open.
ReturnLeaky(res) ==
    LET ns == Propagate(Front(stack), res)
    IN /\ stack' = ns
       /\ open' = open
       /\ results' = IF ns = <<>> THEN Append(results, res) ELSE results
       /\ UNCHANGED raised

\* The top frame returns res: its handles are dropped, and the result goes to
\* the caller or, from the outermost frame, to the driver.
Return(res) ==
    LET ns == Propagate(Front(stack), res)
    IN /\ stack' = ns
       /\ open' = {o \in open : o.depth <= Len(ns)}
       /\ results' = IF ns = <<>> THEN Append(results, res) ELSE results
       /\ UNCHANGED raised

\* The top frame fails with res (an Err or a panic) after the operations logged
\* in this step; env tells a failure of the environment (a primitive that
\* could have succeeded) from one the code or the filesystems decide.
Raise(res, env) ==
    LET ns == Propagate(Front(stack), res)
    IN /\ stack' = ns
       /\ open' = {o \in open : o.depth <= Len(ns)}
       /\ results' = IF ns = <<>> THEN Append(results, res) ELSE results
       /\ raised' = Append(raised, [res |-> res, at |-> Len(oplog'), env |-> env,
                                    stack |-> stack])

(***************************************************************************)
(* Sbs::make_dirs (ssh.rs 218-235).                                        *)
(***************************************************************************)
\* A mutant of MakeDirsStep: mkdir without the stat of line 224, so that a
\* component that exists already makes mkdir fail.
MakeDirsStepNoStat ==
    /\ Running("make_dirs", "loop")
    /\ Top.idx <= Len(Top.r)
    /\ LET path == SubSeq(Top.r, 1, Top.idx)
       IN /\ Logged(<<Op("remote", "mkdir", path, FixedMode, 0)>>)
          /\ \E ok \in BOOLEAN :
               IF ok /\ ~Exists(remoteFs, path)
               THEN /\ remoteFs' = Put(remoteFs, path, DirNode(FixedMode))
                    /\ stack' = SetTop([Top EXCEPT !.idx = @ + 1])
                    /\ UNCHANGED <<open, results, raised>>
               ELSE /\ Raise(Panic("mkdir"), ~Exists(remoteFs, path))
                    /\ UNCHANGED remoteFs
    /\ UNCHANGED <<localFs, runs, driver>>

\* One iteration of the loop over the components of remote_path.
MakeDirsStep ==
    /\ Running("make_dirs", "loop")
    /\ Top.idx <= Len(Top.r)
    /\ LET path == SubSeq(Top.r, 1, Top.idx)
           stat == Op("remote", "stat", path, 0, 0)
           mkdir == Op("remote", "mkdir", path, FixedMode, 0)
       IN IF Exists(remoteFs, path)
          THEN IF IsDir(remoteFs, path)
               THEN /\ stack' = SetTop([Top EXCEPT !.idx = @ + 1])
                    /\ Logged(<<stat>>)
                    /\ UNCHANGED <<remoteFs, open, results, raised>>
               ELSE /\ Logged(<<stat>>)
                    /\ Raise(Panic("NotADirectory"), FALSE)
                    /\ UNCHANGED remoteFs
          ELSE \E ok \in BOOLEAN :
                 /\ Logged(<<stat, mkdir>>)
                 /\ IF ok
                    THEN /\ remoteFs' = Put(remoteFs, path, DirNode(FixedMode))
                         /\ stack' = SetTop([Top EXCEPT !.idx = @ + 1])
                         /\ UNCHANGED <<open, results, raised>>
                    ELSE /\ Raise(Panic("mkdir"), TRUE)
                         /\ UNCHANGED remoteFs
    /\ UNCHANGED <<localFs, runs, driver>>

\* The loop is over: make_dirs returns ().
MakeDirsReturn ==
    /\ Running("make_dirs", "loop")
    /\ Top.idx > Len(Top.r)
    /\ Return(Ok)
    /\ UNCHANGED <<localFs, remoteFs, oplog, runs, driver>>

(***************************************************************************)
(* Sbs::send_directory (ssh.rs 169-216).                                   *)
(***************************************************************************)
\* 171-173: the local path must exist.
SendCheckLocal ==
    /\ Running("send_directory", "check")
    /\ Logged(<<Op("local", "exists", Top.l, 0, 0)>>)
    /\ IF Exists(localFs, Top.l)
       THEN /\ stack' = Goto("sftp")
            /\ UNCHANGED <<open, results, raised>>
       ELSE Raise(Err("NotFound"), FALSE)
    /\ UNCHANGED <<localFs, remoteFs, runs, driver>>

\* 175: let sftp_session = self.session.sftp()?
SendOpenSftp ==
    /\ Running("send_directory", "sftp")
    /\ Logged(<<Op("remote", "sftp", Top.r, 0, 0)>>)
    /\ \E ok \in BOOLEAN :
         IF ok
         THEN /\ stack' = Goto("stat")
              /\ open' = open \cup {[res |-> "sftp", depth |-> Depth, path |-> Top.r]}
              /\ UNCHANGED <<results, raised>>
         ELSE Raise(Err("Transport"), TRUE)
    /\ UNCHANGED <<localFs, remoteFs, runs, driver>>

\* A mutant of SendStatRemote: a failed stat is passed over, the remote
\* directory is not made.
SendStatRemoteNoMake ==
    /\ Running("send_directory", "stat")
    /\ Logged(<<Op("remote", "stat", Top.r, 0, 0)>>)
    /\ IF Exists(remoteFs, Top.r) /\ ~IsDir(remoteFs, Top.r)
       THEN Raise(Err("InvalidInput"), FALSE)
       ELSE /\ stack' = Goto("read_dir")
            /\ UNCHANGED <<open, results, raised>>
    /\ UNCHANGED <<localFs, remoteFs, runs, driver>>

\* 178-189: stat the remote path; make it when the stat fails.
SendStatRemote ==
    /\ Running("send_directory", "stat")
    /\ Logged(<<Op("remote", "stat", Top.r, 0, 0)>>)
    /\ IF Exists(remoteFs, Top.r)
       THEN IF IsDir(remoteFs, Top.r)
            THEN /\ stack' = Goto("read_dir")
                 /\ UNCHANGED <<open, results, raised>>
            ELSE Raise(Err("InvalidInput"), FALSE)
       ELSE /\ stack' = Append(Goto("read_dir"), Frame("make_dirs", <<>>, Top.r, "loop"))
            /\ UNCHANGED <<open, results, raised>>
    /\ UNCHANGED <<localFs, remoteFs, runs, driver>>

\* 192: local_path.read_dir()?
SendReadDir ==
    /\ Running("send_directory", "read_dir")
    /\ Logged(<<Op("local", "read_dir", Top.l, 0, 0)>>)
    /\ IF IsDir(localFs, Top.l)
       THEN /\ stack' = SetTop([Top EXCEPT !.pc = "loop", !.todo = ChildNames(localFs, Top.l)])
            /\ UNCHANGED <<open, results, raised>>
       ELSE Raise(Err("NotADirectory"), FALSE)
    /\ UNCHANGED <<localFs, remoteFs, runs, driver>>

\* A mutant of SendNextEntry: a directory without entries is skipped.
SendNextEntrySkipEmpty ==
    /\ Running("send_directory", "loop")
    /\ Top.todo # {}
    /\ \E n \in Top.todo :
         LET rest == [Top EXCEPT !.todo = @ \ {n}]
             path == Join(Top.l, n)
         IN IF IsDir(localFs, path)
            THEN IF ChildNames(localFs, path) = {}
                 THEN stack' = SetTop(rest)
                 ELSE stack' = Append(SetTop(rest),
                                      Frame("send_directory", path, Join(Top.r, n), "check"))
            ELSE stack' = SetTop([rest EXCEPT !.pc = "scp_send", !.cur = n])
    /\ UNCHANGED <<localFs, remoteFs, results, oplog, open, raised, runs, driver>>

\* 192-199: the next entry, in the order read_dir yields them (any order);
\* a directory is sent recursively.
SendNextEntry ==
    /\ Running("send_directory", "loop")
    /\ Top.todo # {}
    /\ \E n \in Top.todo :
         LET rest == [Top EXCEPT !.todo = @ \ {n}]
             path == Join(Top.l, n)
         IN IF IsDir(localFs, path)
            THEN stack' = Append(SetTop(rest),
                                 Frame("send_directory", path, Join(Top.r, n), "check"))
            ELSE stack' = SetTop([rest EXCEPT !.pc = "scp_send", !.cur = n])
    /\ UNCHANGED <<localFs, remoteFs, results, oplog, open, raised, runs, driver>>

\* 215: every entry is sent.
SendReturn ==
    /\ Running("send_directory", "loop")
    /\ Top.todo = {}
    /\ Return(Ok)
    /\ UNCHANGED <<localFs, remoteFs, oplog, runs, driver>>

\* What opening a file for writing leaves at path p: a new empty file of
\* mode m, or the existing file emptied, its mode untouched (m is a creation
\* mode).
Truncated(fs, p, m) ==
    IF IsFile(fs, p) THEN [fs[p] EXCEPT !.data = <<>>] ELSE FileNode(<<>>, m)

\* A mutant of SendScpSend: the remote file gets the mode of the local one.
SendScpSendSourceMode ==
    /\ Running("send_directory", "scp_send")
    /\ LET path == Join(Top.l, Top.cur)
           target == Join(Top.r, Top.cur)
           length == Len(localFs[path].data)
           mode == localFs[path].mode
       IN /\ Logged(<<Op("local", "metadata", path, 0, 0),
                      Op("remote", "scp_send", target, mode, length)>>)
          /\ \E ok \in BOOLEAN :
               IF ok /\ ~IsDir(remoteFs, target)
               THEN /\ remoteFs' = Put(remoteFs, target, Truncated(remoteFs, target, mode))
                    /\ stack' = SetTop([Top EXCEPT !.pc = "copy", !.len = length])
                    /\ open' = open \cup {[res |-> "scp", depth |-> Depth, path |-> target]}
                    /\ UNCHANGED <<results, raised>>
               ELSE /\ Raise(Err("Transport"), ~IsDir(remoteFs, target))
                    /\ UNCHANGED remoteFs
    /\ UNCHANGED <<localFs, runs, driver>>

\* 201-206: open the push stream, with mode 0o755 and the file's length.
\* The remote side makes (or truncates) the file; it refuses a directory.
SendScpSend ==
    /\ Running("send_directory", "scp_send")
    /\ LET path == Join(Top.l, Top.cur)
           target == Join(Top.r, Top.cur)
           length == Len(localFs[path].data)
       IN /\ Logged(<<Op("local", "metadata", path, 0, 0),
                      Op("remote", "scp_send", target, FixedMode, length)>>)
          /\ \E ok \in BOOLEAN :
               IF ok /\ ~IsDir(remoteFs, target)
               THEN /\ remoteFs' = Put(remoteFs, target, Truncated(remoteFs, target, FixedMode))
                    /\ stack' = SetTop([Top EXCEPT !.pc = "copy", !.len = length])
                    /\ open' = open \cup {[res |-> "scp", depth |-> Depth, path |-> target]}
                    /\ UNCHANGED <<results, raised>>
               ELSE /\ Raise(Err("Transport"), ~IsDir(remoteFs, target))
                    /\ UNCHANGED remoteFs
    /\ UNCHANGED <<localFs, runs, driver>>

\* A mutant of Written: the stream ends one byte early.
WrittenShort(data, n) == SubSeq(data, 1, (IF Len(data) < n THEN Len(data) ELSE n) - 1)

\* The bytes the stream of declared length n takes from data.
Written(data, n) == SubSeq(data, 1, IF Len(data) < n THEN Len(data) ELSE n)

\* A file that held old after new was written from its start.
Overlay(old, new) == new \o SubSeq(old, Len(new) + 1, Len(old))

\* A mutant of SendCopy: the local file is opened with File::create, which
\* truncates it before it is read.
SendCopyTruncating ==
    /\ Running("send_directory", "copy")
    /\ LET path == Join(Top.l, Top.cur)
           target == Join(Top.r, Top.cur)
       IN /\ Logged(<<Op("local", "create", path, 0, 0),
                      Op("remote", "write", target, 0, Top.len)>>)
          /\ \E ok \in BOOLEAN :
               IF ok
               THEN /\ localFs' = Put(localFs, path, [localFs[path] EXCEPT !.data = <<>>])
                    /\ stack' = Goto("flush")
                    /\ open' = open \cup {[res |-> "file", depth |-> Depth, path |-> path]}
                    /\ UNCHANGED <<remoteFs, results, raised>>
               ELSE /\ Raise(Err("Io"), TRUE)
                    /\ UNCHANGED <<localFs, remoteFs>>
    /\ UNCHANGED <<runs, driver>>

\* 208-209: File::open(&path)? and io::copy(&mut local_file, &mut remote_file)?
SendCopy ==
    /\ Running("send_directory", "copy")
    /\ LET path == Join(Top.l, Top.cur)
           target == Join(Top.r, Top.cur)
       IN /\ Logged(<<Op("local", "open", path, 0, 0),
                      Op("remote", "write", target, 0, Top.len)>>)
          /\ \E ok \in BOOLEAN :
               IF ok
               THEN /\ remoteFs' = Put(remoteFs, target,
                                       [remoteFs[target] EXCEPT
                                          !.data = Overlay(@, Written(localFs[path].data, Top.len))])
                    /\ stack' = Goto("flush")
                    /\ open' = open \cup {[res |-> "file", depth |-> Depth, path |-> path]}
                    /\ UNCHANGED <<results, raised>>
               ELSE /\ Raise(Err("Io"), TRUE)
                    /\ UNCHANGED remoteFs
    /\ UNCHANGED <<localFs, runs, driver>>

\* 211-212: remote_file.flush()?; both handles are dropped at the end of
\* the block.
SendFlush ==
    /\ Running("send_directory", "flush")
    /\ Logged(<<Op("remote", "flush", Join(Top.r, Top.cur), 0, 0)>>)
    /\ \E ok \in BOOLEAN :
         IF ok
         THEN /\ stack' = Goto("loop")
              /\ open' = {o \in open : ~(o.depth = Depth /\ o.res \in {"scp", "file"})}
              /\ UNCHANGED <<results, raised>>
         ELSE Raise(Err("Io"), TRUE)
    /\ UNCHANGED <<localFs, remoteFs, runs, driver>>

SendDirectory ==
    \/ SendCheckLocal \/ SendOpenSftp \/ SendStatRemote \/ SendReadDir
    \/ SendNextEntry \/ SendReturn \/ SendScpSend \/ SendCopy \/ SendFlush
    \/ MakeDirsStep \/ MakeDirsReturn

(***************************************************************************)
(* Sbs::receive_directory (ssh.rs 254-293).                                *)
(***************************************************************************)
\* std::fs::create_dir_all: cannot make a directory at or below a file.
CanCreateDirAll(fs, p) == \A q \in Prefixes(p) : ~IsFile(fs, q)
CreateDirAll(fs, p) ==
    [q \in DOMAIN fs \cup Prefixes(p) |-> IF q \in DOMAIN fs THEN fs[q] ELSE DirNode(OtherMode)]

\* 256: std::fs::create_dir_all(local_path)?
RecvCreateDirAll ==
    /\ Running("receive_directory", "create_dir_all")
    /\ Logged(<<Op("local", "create_dir_all", Top.l, 0, 0)>>)
    /\ \E ok \in BOOLEAN :
         IF ok /\ CanCreateDirAll(localFs, Top.l)
         THEN /\ localFs' = CreateDirAll(localFs, Top.l)
              /\ stack' = Goto("readdir")
              /\ UNCHANGED <<open, results, raised>>
         ELSE /\ Raise(Err("Io"), CanCreateDirAll(localFs, Top.l))
              /\ UNCHANGED localFs
    /\ UNCHANGED <<remoteFs, runs, driver>>

\* 259: self.session.sftp()?.readdir(remote_path)?; the sftp channel is a
\* temporary, dropped at the end of the statement.
RecvReadDir ==
    /\ Running("receive_directory", "readdir")
    /\ Logged(<<Op("remote", "sftp", Top.r, 0, 0), Op("remote", "readdir", Top.r, 0, 0)>>)
    /\ \E ok \in BOOLEAN :
         IF ok /\ IsDir(remoteFs, Top.r)
         THEN /\ stack' = SetTop([Top EXCEPT !.pc = "loop", !.todo = ChildNames(remoteFs, Top.r)])
              /\ UNCHANGED <<open, results, raised>>
         ELSE Raise(Err("Transport"), IsDir(remoteFs, Top.r))
    /\ UNCHANGED <<localFs, remoteFs, runs, driver>>

\* 262-279: the next remote entry, in listing order (any order); for a
\* directory the local subdirectory is made and received recursively.
RecvNextEntry ==
    /\ Running("receive_directory", "loop")
    /\ Top.todo # {}
    /\ \E n \in Top.todo :
         LET rest == [Top EXCEPT !.todo = @ \ {n}]
             remote_file_path == Join(Top.r, n)
             local_file_path == Join(Top.l, n)
         IN IF IsDir(remoteFs, remote_file_path)
            THEN /\ Logged(<<Op("local", "create_dir_all", local_file_path, 0, 0)>>)
                 /\ \E ok \in BOOLEAN :
                      IF ok /\ CanCreateDirAll(localFs, local_file_path)
                      THEN /\ localFs' = CreateDirAll(localFs, local_file_path)
                           /\ stack' = Append(SetTop(rest),
                                              Frame("receive_directory", local_file_path,
                                                    remote_file_path, "create_dir_all"))
                           /\ UNCHANGED <<open, results, raised>>
                      ELSE /\ Raise(Err("Io"), CanCreateDirAll(localFs, local_file_path))
                           /\ UNCHANGED localFs
            ELSE /\ stack' = SetTop([rest EXCEPT !.pc = "scp_recv", !.cur = n])
                 /\ UNCHANGED <<localFs, oplog, open, results, raised>>
    /\ UNCHANGED <<remoteFs, runs, driver>>

\* 292: every entry is received.
RecvReturn ==
    /\ Running("receive_directory", "loop")
    /\ Top.todo = {}
    /\ Return(Ok)
    /\ UNCHANGED <<localFs, remoteFs, oplog, runs, driver>>

\* 282: self.session.scp_recv(&remote_file_path)?
RecvScpRecv ==
    /\ Running("receive_directory", "scp_recv")
    /\ LET source == Join(Top.r, Top.cur)
       IN /\ Logged(<<Op("remote", "scp_recv", source, 0, 0)>>)
          /\ \E ok \in BOOLEAN :
               IF ok /\ IsFile(remoteFs, source)
               THEN /\ stack' = SetTop([Top EXCEPT !.pc = "create",
                                                   !.len = Len(remoteFs[source].data)])
                    /\ open' = open \cup {[res |-> "scp", depth |-> Depth, path |-> source]}
                    /\ UNCHANGED <<results, raised>>
               ELSE Raise(Err("Transport"), IsFile(remoteFs, source))
    /\ UNCHANGED <<localFs, remoteFs, runs, driver>>

\* A mutant of RecvCreate: the local file is opened for writing without
\* being truncated.
RecvCreateNoTruncate ==
    /\ Running("receive_directory", "create")
    /\ LET path == Join(Top.l, Top.cur)
       IN /\ Logged(<<Op("local", "create", path, 0, 0)>>)
          /\ \E ok \in BOOLEAN :
               IF ok /\ ~IsDir(localFs, path)
               THEN /\ localFs' = Put(localFs, path,
                                      IF IsFile(localFs, path) THEN localFs[path]
                                      ELSE FileNode(<<>>, OtherMode))
                    /\ stack' = Goto("copy")
                    /\ open' = open \cup {[res |-> "file", depth |-> Depth, path |-> path]}
                    /\ UNCHANGED <<results, raised>>
               ELSE /\ Raise(Err("Io"), ~IsDir(localFs, path))
                    /\ UNCHANGED localFs
    /\ UNCHANGED <<remoteFs, runs, driver>>

\* 283: File::create(&local_file_path)? makes or truncates the local file.
RecvCreate ==
    /\ Running("receive_directory", "create")
    /\ LET path == Join(Top.l, Top.cur)
       IN /\ Logged(<<Op("local", "create", path, 0, 0)>>)
          /\ \E ok \in BOOLEAN :
               IF ok /\ ~IsDir(localFs, path)
               THEN /\ localFs' = Put(localFs, path, Truncated(localFs, path, OtherMode))
                    /\ stack' = Goto("copy")
                    /\ open' = open \cup {[res |-> "file", depth |-> Depth, path |-> path]}
                    /\ UNCHANGED <<results, raised>>
               ELSE /\ Raise(Err("Io"), ~IsDir(localFs, path))
                    /\ UNCHANGED localFs
    /\ UNCHANGED <<remoteFs, runs, driver>>

\* 285-286: io::copy(&mut channel, &mut local_file)?; the channel yields the
\* bytes of the remote file, up to the length scp_recv reported.
RecvCopy ==
    /\ Running("receive_directory", "copy")
    /\ LET path == Join(Top.l, Top.cur)
           source == Join(Top.r, Top.cur)
       IN /\ Logged(<<Op("remote", "read", source, 0, Top.len),
                      Op("local", "write", path, 0, Top.len)>>)
          /\ \E ok \in BOOLEAN :
               IF ok
               THEN /\ localFs' = Put(localFs, path,
                                      [localFs[path] EXCEPT
                                         !.data = Overlay(@, Written(remoteFs[source].data, Top.len))])
                    /\ stack' = Goto("flush")
                    /\ UNCHANGED <<open, results, raised>>
               ELSE /\ Raise(Err("Io"), TRUE)
                    /\ UNCHANGED localFs
    /\ UNCHANGED <<remoteFs, runs, driver>>

\* 288-289: local_file.flush()?; both handles are dropped at the end of the
\* block.
RecvFlush ==
    /\ Running("receive_directory", "flush")
    /\ Logged(<<Op("local", "flush", Join(Top.l, Top.cur), 0, 0)>>)
    /\ \E ok \in BOOLEAN :
         IF ok
         THEN /\ stack' = Goto("loop")
              /\ open' = {o \in open : ~(o.depth = Depth /\ o.res \in {"scp", "file"})}
              /\ UNCHANGED <<results, raised>>
         ELSE Raise(Err("Io"), TRUE)
    /\ UNCHANGED <<localFs, remoteFs, runs, driver>>

ReceiveDirectory ==
    \/ RecvCreateDirAll \/ RecvReadDir \/ RecvNextEntry \/ RecvReturn
    \/ RecvScpRecv \/ RecvCreate \/ RecvCopy \/ RecvFlush

(***************************************************************************)
(* Sbs::compile_commands (ssh.rs 95-104) and Sbs::execute_commands         *)
(* (ssh.rs 126-150).  A command text and a script are sequences of         *)
(* characters.                                                             *)
(***************************************************************************)
Newline == "\n"

\* A mutant of compile_commands: the newline is pushed between the commands
\* only, not after the last one.
RECURSIVE compile_commands_joined(_)
compile_commands_joined(commands) ==
    IF commands = <<>> THEN <<>>
    ELSE IF Len(commands) = 1 THEN Head(commands).command
         ELSE (Head(commands).command \o <<Newline>>) \o compile_commands_joined(Tail(commands))

\* 98-101: push the text of every command, each followed by a newline.
RECURSIVE compile_commands(_)
compile_commands(commands) ==
    IF commands = <<>> THEN <<>>
    ELSE (Head(commands).command \o <<Newline>>) \o compile_commands(Tail(commands))

\* A mutant of retain: the test of line 130 inverted.
RECURSIVE retain_inverted(_, _)
retain_inverted(commands, is_after_compilation) ==
    IF commands = <<>> THEN <<>>
    ELSE IF Head(commands).execute_after_compilation # is_after_compilation
         THEN <<Head(commands)>> \o retain_inverted(Tail(commands), is_after_compilation)
         ELSE retain_inverted(Tail(commands), is_after_compilation)

\* 130: Vec::retain keeps, in order, the commands of the requested phase.
RECURSIVE retain(_, _)
retain(commands, is_after_compilation) ==
    IF commands = <<>> THEN <<>>
    ELSE IF Head(commands).execute_after_compilation = is_after_compilation
         THEN <<Head(commands)>> \o retain(Tail(commands), is_after_compilation)
         ELSE retain(Tail(commands), is_after_compilation)

\* What the remote side may answer to a script.
ExitStatuses == {0, 1}
Outputs == {<<>>, <<"o", Newline>>}

\* A mutant of ExecCompile: an empty script is not submitted, the call
\* returns an empty output at once.
ExecCompileSkipEmpty ==
    /\ Running("execute_commands", "retain")
    /\ LET script == compile_commands(retain(Top.cmds, Top.flag))
       IN IF script = <<>>
          THEN Return(OkVal(<<>>)) /\ UNCHANGED oplog
          ELSE /\ stack' = SetTop([Top EXCEPT !.pc = "channel_session", !.script = script])
               /\ UNCHANGED <<results, oplog, open, raised>>
    /\ UNCHANGED <<localFs, remoteFs, runs, driver>>

\* 128-133: filter the commands and compile them.
ExecCompile ==
    /\ Running("execute_commands", "retain")
    /\ stack' = SetTop([Top EXCEPT !.pc = "channel_session",
                                   !.script = compile_commands(retain(Top.cmds, Top.flag))])
    /\ UNCHANGED <<localFs, remoteFs, results, oplog, open, raised, runs, driver>>

\* 135: let mut channel = self.session.channel_session()?
ExecChannelSession ==
    /\ Running("execute_commands", "channel_session")
    /\ Logged(<<Op("remote", "channel_session", <<>>, 0, 0)>>)
    /\ \E ok \in BOOLEAN :
         IF ok
         THEN /\ stack' = Goto("exec")
              /\ open' = open \cup {[res |-> "channel", depth |-> Depth, path |-> <<>>]}
              /\ UNCHANGED <<results, raised>>
         ELSE Raise(Err("Transport"), TRUE)
    /\ UNCHANGED <<localFs, remoteFs, runs, driver>>

\* 138: channel.exec(&compiled_commands)?; the remote side runs the script
\* and ends it with some exit status and some output.  The path field of the
\* logged operation holds the script.
ExecExec ==
    /\ Running("execute_commands", "exec")
    /\ Logged(<<Op("remote", "exec", Top.script, 0, 0)>>)
    /\ \E ok \in BOOLEAN :
         IF ok
         THEN \E status \in ExitStatuses, output \in Outputs :
                /\ runs' = Append(runs, [script |-> Top.script, status |-> status,
                                         output |-> output, flag |-> Top.flag])
                /\ stack' = Goto("read")
                /\ UNCHANGED <<open, results, raised>>
         ELSE /\ Raise(Err("Transport"), TRUE)
              /\ UNCHANGED runs
    /\ UNCHANGED <<localFs, remoteFs, driver>>

\* 141-142: channel.read_to_string(&mut output)?
ExecRead ==
    /\ Running("execute_commands", "read")
    /\ Logged(<<Op("remote", "read_to_string", <<>>, 0, 0)>>)
    /\ \E ok \in BOOLEAN :
         IF ok
         THEN /\ stack' = SetTop([Top EXCEPT !.pc = "close", !.out = runs[Len(runs)].output])
              /\ UNCHANGED <<open, results, raised>>
         ELSE Raise(Err("Io"), TRUE)
    /\ UNCHANGED <<localFs, remoteFs, runs, driver>>

CloseSteps == <<"wait_eof", "wait_close", "close">>
CloseOps(n) == [i \in 1..n |-> Op("remote", CloseSteps[i], <<>>, 0, 0)]

\* A mutant of ExecClose: a nonzero exit status of the script is an error.
ExecCloseChecked ==
    /\ Running("execute_commands", "close")
    /\ \E failed \in 0..Len(CloseSteps) :
         IF failed = 0
         THEN /\ Logged(CloseOps(Len(CloseSteps)))
              /\ IF runs[Len(runs)].status = 0
                 THEN Return(OkVal(Top.out))
                 ELSE Raise(Err("Other"), FALSE)
         ELSE /\ Logged(CloseOps(failed))
              /\ Raise(Err("Transport"), TRUE)
    /\ UNCHANGED <<localFs, remoteFs, runs, driver>>

\* 144-149: channel.wait_eof()?; channel.wait_close()?; channel.close()?;
\* Ok(output).  The first failed steps, if any, ends the call (failed = 0:
\* none fails).
ExecClose ==
    /\ Running("execute_commands", "close")
    /\ \E failed \in 0..Len(CloseSteps) :
         IF failed = 0
         THEN /\ Logged(CloseOps(Len(CloseSteps)))
              /\ Return(OkVal(Top.out))
         ELSE /\ Logged(CloseOps(failed))
              /\ Raise(Err("Transport"), TRUE)
    /\ UNCHANGED <<localFs, remoteFs, runs, driver>>

ExecuteCommands == ExecCompile \/ ExecChannelSession \/ ExecExec \/ ExecRead \/ ExecClose

(***************************************************************************)
(* Sbs::connect (ssh.rs 51-59) and Sbs::disconnect (ssh.rs 70-74).         *)
(***************************************************************************)
ConnectSteps == <<"tcp_connect", "handshake", "userauth_password">>
ConnectOps(n) == [i \in 1..n |-> Op("remote", ConnectSteps[i], <<>>, 0, 0)]

\* 52-58: TcpStream::connect(address)?, handshake()?, userauth_password()?
Connect ==
    /\ Running("connect", "connect")
    /\ \E failed \in 0..Len(ConnectSteps) :
         IF failed = 0
         THEN /\ Logged(ConnectOps(Len(ConnectSteps)))
              /\ Return(Ok)
         ELSE /\ Logged(ConnectOps(failed))
              /\ Raise(Err("Transport"), TRUE)
    /\ UNCHANGED <<localFs, remoteFs, runs, driver>>

\* 71-73: self.session.disconnect(reason, description, lang)?
Disconnect ==
    /\ Running("disconnect", "disconnect")
    /\ Logged(<<Op("remote", "disconnect", <<>>, 0, 0)>>)
    /\ \E ok \in BOOLEAN :
         IF ok THEN Return(Ok) ELSE Raise(Err("Transport"), TRUE)
    /\ UNCHANGED <<localFs, remoteFs, runs, driver>>

(***************************************************************************)
(* Driving the methods of Sbs directly: a plan of calls, made one after    *)
(* the other while each returns Ok.                                        *)
(***************************************************************************)
LocalRoot == <<"a">>
RemoteRoots == {<<>>, <<"a">>, <<"a", "b">>}
PullDests == {<<"b">>, <<"b", "a">>}

EntryPc(fn) ==
    CASE fn = "send_directory" -> "check"
      [] fn = "receive_directory" -> "create_dir_all"
      [] fn = "make_dirs" -> "loop"
      [] fn = "execute_commands" -> "retain"
      [] fn = "connect" -> "connect"
      [] fn = "disconnect" -> "disconnect"

Enter(c) == [Frame(c.fn, c.l, c.r, EntryPc(c.fn)) EXCEPT !.cmds = c.cmds, !.flag = c.flag]

LastOk == IF results = <<>> THEN TRUE ELSE results[Len(results)].kind = "Ok"

NextCall ==
    /\ mainPc = "off"
    /\ stack = <<>>
    /\ Len(results) < Len(plan)
    /\ LastOk
    /\ stack' = <<Enter(plan[Len(results) + 1])>>
    /\ UNCHANGED <<localFs, remoteFs, results, oplog, open, raised, runs, driver>>

NoConfig ==
    [compilation |-> [local_project_root |-> <<>>, remote_project_root |-> <<>>,
                      output_directory |-> ""],
     commands |-> <<>>]

\* The local side: nothing at LocalRoot, a regular file there, or a tree.
LocalStarts ==
    {EmptyFs, Put(EmptyFs, LocalRoot, FileNode(<<1>>, OtherMode))}
      \cup {Graft(LocalRoot, t) : t \in TreesUpTo(MaxLocalEntries, Contents)}
RemoteStarts == TreesUpTo(MaxRemoteEntries, {OldData})

SyncPlans ==
    {<<Call("send_directory", LocalRoot, r), Call("receive_directory", l, r)>> :
        r \in RemoteRoots, l \in PullDests}
\* A pull alone, into a local directory that may hold entries already.
RecvPlans == {<<Call("receive_directory", LocalRoot, r)>> : r \in RemoteRoots}
MakePlans ==
    {<<Call("make_dirs", <<>>, r), Call("make_dirs", <<>>, r)>> : r \in RemoteRoots}

InitSync ==
    /\ \/ plan \in SyncPlans \cup RecvPlans /\ localFs \in LocalStarts
       \/ plan \in MakePlans /\ localFs = EmptyFs
    /\ remoteFs \in RemoteStarts
    /\ localFs0 = localFs
    /\ remoteFs0 = remoteFs
    /\ stack = <<>>
    /\ results = <<>>
    /\ oplog = <<>>
    /\ open = {}
    /\ runs = <<>>
    /\ raised = <<>>
    /\ mainPc = "off"
    /\ phases = <<>>
    /\ reports = <<>>
    /\ config = NoConfig

NextSync == NextCall \/ SendDirectory \/ ReceiveDirectory

SpecSync == InitSync /\ [][NextSync]_vars

(***************************************************************************)
(* main (main.rs 10-118) and the settings (settings.rs).                   *)
(***************************************************************************)
\* settings.rs 69-71 and 85-87: format!("{}/{}", root, output_directory)
get_remote_output_directory(compilation) ==
    Join(compilation.remote_project_root, compilation.output_directory)
get_local_output_directory(compilation) ==
    Join(compilation.local_project_root, compilation.output_directory)

Command(text, after) == [command |-> text, execute_after_compilation |-> after]

\* The two commands of DEFAULT_SETTINGS (settings.rs 110-118), both run
\* before the artifacts are pulled; their texts are abbreviated.
DefaultCommands == <<Command(<<"c", "d">>, FALSE), Command(<<"c", "b">>, FALSE)>>

CmdTexts == {<<"c", "d">>, <<"x">>}
RECURSIVE CommandLists(_)
CommandLists(n) ==
    IF n = 0 THEN {<<>>}
    ELSE LET S == CommandLists(n - 1)
         IN S \cup {Append(cs, Command(t, f)) : cs \in S, t \in CmdTexts, f \in BOOLEAN}

\* The phase-labelled messages of main.rs lines 30, 49, 64, 76, 91, 103, 115.
ConfigFailed == "Failed to load config"
ConnectFailed == "Failed to connect to SSH"
CopyFailed == "Failed to copy project"
CompileFailed == "Failed to compile code"
DownloadFailed == "Failed to download output folder"
PostCompileFailed == "Failed to execute post-compilation commands"
DisconnectFailed == "Failed to disconnect from SSH"

mainRest == <<localFs, remoteFs, plan, results, oplog, open, runs, raised, config,
              localFs0, remoteFs0>>

\* 24-34: Settings::new(config_path); a failure ends the run.
MainLoadConfig ==
    /\ mainPc = "config"
    /\ \E ok \in BOOLEAN :
         IF ok
         THEN mainPc' = "connect" /\ UNCHANGED reports
         ELSE mainPc' = "exit" /\ reports' = Append(reports, ConfigFailed)
    /\ UNCHANGED <<stack, phases, mainRest>>

\* main calls a method of Sbs: the phase is attempted.
Attempt(pc, phase, call) ==
    /\ mainPc = pc
    /\ stack = <<>>
    /\ phases' = Append(phases, phase)
    /\ stack' = <<Enter(call)>>
    /\ mainPc' = phase
    /\ UNCHANGED <<reports, mainRest>>

\* A mutant of Match: the return after the message is missing.
MatchNoReturn(phase, message, next) ==
    /\ mainPc = phase
    /\ stack = <<>>
    /\ LET operation == results[Len(results)]
       IN IF operation.kind = "Ok"
          THEN mainPc' = next /\ UNCHANGED reports
          ELSE IF operation.kind = "Err"
               THEN mainPc' = next /\ reports' = Append(reports, message)
               ELSE mainPc' = "aborted" /\ UNCHANGED reports
    /\ UNCHANGED <<stack, phases, mainRest>>

\* The match on the result of the phase: Ok goes on with next, Err prints
\* the message and returns from main; a panic has ended the process.
Match(phase, message, next) ==
    /\ mainPc = phase
    /\ stack = <<>>
    /\ LET operation == results[Len(results)]
       IN IF operation.kind = "Ok"
          THEN mainPc' = next /\ UNCHANGED reports
          ELSE IF operation.kind = "Err"
               THEN mainPc' = "exit" /\ reports' = Append(reports, message)
               ELSE mainPc' = "aborted" /\ UNCHANGED reports
    /\ UNCHANGED <<stack, phases, mainRest>>

\* 36-53
MainConnect == Attempt("connect", "connect_operation", Call("connect", <<>>, <<>>))
MainConnectMatch == Match("connect_operation", ConnectFailed, "send")
\* 55-68
MainSend ==
    Attempt("send", "send_operation",
            Call("send_directory", config.compilation.local_project_root,
                 config.compilation.remote_project_root))
MainSendMatch == Match("send_operation", CopyFailed, "compile")
\* 70-80
MainCompile ==
    Attempt("compile", "compile_operation", ExecCall(config.commands, FALSE))
MainCompileMatch == Match("compile_operation", CompileFailed, "download")
\* 82-95
MainDownload ==
    Attempt("download", "download_operation",
            Call("receive_directory", get_local_output_directory(config.compilation),
                 get_remote_output_directory(config.compilation)))
MainDownloadMatch == Match("download_operation", DownloadFailed, "post_compile")
\* 97-107
MainPostCompile ==
    Attempt("post_compile", "post_compile_operation", ExecCall(config.commands, TRUE))
MainPostCompileMatch == Match("post_compile_operation", PostCompileFailed, "disconnect")
\* A mutant of MainDisconnectMatch: a failed disconnect is unwrapped, which
\* ends the process by a panic.
MainDisconnectMatchFatal ==
    /\ mainPc = "disconnect_operation"
    /\ stack = <<>>
    /\ IF results[Len(results)].kind = "Ok" THEN mainPc' = "exit" ELSE mainPc' = "aborted"
    /\ UNCHANGED <<stack, phases, reports, mainRest>>

\* 109-117: a failed disconnect is printed, and main ends either way.
MainDisconnect ==
    Attempt("disconnect", "disconnect_operation", Call("disconnect", <<>>, <<>>))
MainDisconnectMatch == Match("disconnect_operation", DisconnectFailed, "exit")

Main ==
    \/ MainLoadConfig
    \/ MainConnect \/ MainConnectMatch
    \/ MainSend \/ MainSendMatch
    \/ MainCompile \/ MainCompileMatch
    \/ MainDownload \/ MainDownloadMatch
    \/ MainPostCompile \/ MainPostCompileMatch
    \/ MainDisconnect \/ MainDisconnectMatch

OutputDirectory == "a"
Compilations ==
    [local_project_root : {LocalRoot}, remote_project_root : RemoteRoots,
     output_directory : {OutputDirectory}]
SampleCompilation ==
    [local_project_root |-> LocalRoot, remote_project_root |-> <<"a">>,
     output_directory |-> OutputDirectory]

\* A local project with an output directory that holds one artifact.
SampleLocal ==
    Graft(LocalRoot, Put(Put(EmptyFs, <<"a">>, DirNode(OtherMode)),
                         <<"a", "b">>, FileNode(<<1, 0>>, PrivateMode)))

Init ==
    /\ \/ /\ config \in [compilation : Compilations, commands : {DefaultCommands}]
          /\ localFs \in LocalStarts
          /\ remoteFs = EmptyFs
       \/ /\ config \in [compilation : Compilations, commands : {DefaultCommands}]
          /\ localFs = SampleLocal
          /\ remoteFs \in RemoteStarts
       \/ /\ config \in [compilation : {SampleCompilation},
                          commands : CommandLists(MaxCmds)]
          /\ localFs = SampleLocal
          /\ remoteFs = EmptyFs
    /\ localFs0 = localFs
    /\ remoteFs0 = remoteFs
    /\ plan = <<>>
    /\ stack = <<>>
    /\ results = <<>>
    /\ oplog = <<>>
    /\ open = {}
    /\ runs = <<>>
    /\ raised = <<>>
    /\ mainPc = "config"
    /\ phases = <<>>
    /\ reports = <<>>

Next ==
    \/ Main
    \/ Connect \/ Disconnect
    \/ SendDirectory \/ ReceiveDirectory \/ ExecuteCommands

Spec == Init /\ [][Next]_vars

(***************************************************************************)
(* Properties of the directory engines, under SpecSync.                    *)
(***************************************************************************)
Direct == mainPc = "off"
SendPlan == Direct /\ plan[1].fn = "send_directory"
MakePlan == Direct /\ plan[1].fn = "make_dirs"
NoEnvFailure == \A i \in DOMAIN raised : ~raised[i].env
SendFrames(st) == {i \in DOMAIN st : st[i].fn = "send_directory"}
\* The failure was raised while send_directory was busy with a child entry.
InChild(st) ==
    \/ Cardinality(SendFrames(st)) >= 2
    \/ \E i \in SendFrames(st) : st[i].pc \in {"scp_send", "copy", "flush"}
RemoteWrites == {"mkdir", "scp_send", "write"}

\* C2: a tree pushed to a remote location that did not exist and pulled back
\* into a fresh local location, both calls succeeding, arrives with the same
\* names, structure and bytes.
C2_RoundTrip ==
    (/\ SendPlan
     /\ IsDir(localFs0, plan[1].l)
     /\ ~Exists(remoteFs0, plan[1].r)
     /\ ~Exists(localFs0, plan[2].l)
     /\ results = <<Ok, Ok>>)
    => /\ IsDir(localFs, plan[2].l)
       /\ Shape(SubTree(localFs, plan[2].l)) = Shape(SubTree(localFs0, plan[1].l))

C2_Witness ==
    /\ SendPlan
    /\ ~Exists(remoteFs0, plan[1].r)
    /\ ~Exists(localFs0, plan[2].l)
    /\ Len(plan[2].l) = 2
    /\ results = <<Ok, Ok>>
    /\ \E x \in DOMAIN SubTree(localFs0, plan[1].l) :
         Len(x) = 2 /\ Len(localFs0[plan[1].l \o x].data) = 2

\* C3: when a component of the target remote directory is a non-directory,
\* send_directory and make_dirs fail with the Conflict error (InvalidInput
\* in ssh.rs), and no mkdir or file write is issued at or below that component.
C3_Conflict ==
    (/\ Direct
     /\ SendPlan => IsDir(localFs0, plan[1].l)
     /\ \E c \in Prefixes(plan[1].r) : IsFile(remoteFs0, c)
     /\ NoEnvFailure
     /\ Len(results) >= 1)
    => /\ results[1] = Err("InvalidInput")
       /\ \A c \in Prefixes(plan[1].r) : \A i \in DOMAIN oplog :
            (IsFile(remoteFs0, c) /\ oplog[i].op \in RemoteWrites)
               => ~IsPrefix(c, oplog[i].path)

\* C4: when the transfer or the recursive push of a child fails, send_directory
\* returns that failure at every depth, the outermost call included, and
\* attempts nothing more.
C4_ChildFailure ==
    (/\ SendPlan
     /\ raised # <<>>
     /\ InChild(raised[1].stack))
    => /\ Len(raised) = 1
       /\ Len(oplog) = raised[1].at
       /\ results = <<raised[1].res>>
       /\ results[1].kind = "Err"

\* C6: once make_dirs(p) has returned, a second make_dirs(p) issues no mkdir,
\* fails nowhere, leaves the remote filesystem as it is and returns.
C6_Idempotent ==
    [][(/\ MakePlan
        /\ Len(results) >= 1
        /\ results[1] = Ok)
       => /\ remoteFs' = remoteFs
          /\ raised' = raised
          /\ \A i \in (Len(oplog) + 1)..Len(oplog') : oplog'[i].op # "mkdir"
          /\ Len(results') = 2 => results'[2] = Ok]_vars

C6_Witness ==
    /\ MakePlan
    /\ Len(plan[1].r) = 2
    /\ ~Exists(remoteFs0, <<plan[1].r[1]>>)
    /\ results = <<Ok, Ok>>
    /\ IsDir(remoteFs, plan[1].r)

\* C7: after a successful send_directory every local subdirectory, an empty one
\* included, is a remote directory and every local file, a zero-length one
\* included, is a remote file of the same length, sent with that length declared.
C7_EmptyAndZero ==
    (/\ SendPlan
     /\ Len(results) >= 1
     /\ results[1] = Ok)
    => \A x \in DOMAIN SubTree(localFs0, plan[1].l) :
         LET n == localFs0[plan[1].l \o x]
             q == plan[1].r \o x
         IN /\ q \in DOMAIN remoteFs
            /\ remoteFs[q].kind = n.kind
            /\ n.kind = "file" =>
                 /\ Len(remoteFs[q].data) = Len(n.data)
                 /\ \E i \in DOMAIN oplog :
                      oplog[i] = Op("remote", "scp_send", q, FixedMode, Len(n.data))

C7_Witness ==
    /\ SendPlan
    /\ Len(results) >= 1
    /\ results[1] = Ok
    /\ \E d, f \in Names :
         /\ IsDir(localFs0, Join(plan[1].l, d))
         /\ ChildNames(localFs0, Join(plan[1].l, d)) = {}
         /\ IsFile(localFs0, Join(plan[1].l, f))
         /\ localFs0[Join(plan[1].l, f)].data = <<>>
         /\ IsDir(remoteFs, Join(plan[1].r, d))
         /\ IsFile(remoteFs, Join(plan[1].r, f))

\* C8: send_directory of a local path that is not an existing directory (missing,
\* or a regular file) fails with NotFound.
C8_NotFound ==
    (/\ SendPlan
     /\ ~IsDir(localFs0, plan[1].l)
     /\ NoEnvFailure
     /\ Len(results) >= 1)
    => results[1] = Err("NotFound")

(***************************************************************************)
(* Properties of the orchestrator and of execute_commands, under Spec.     *)
(***************************************************************************)
PhaseOrder ==
    <<"connect_operation", "send_operation", "compile_operation", "download_operation",
      "post_compile_operation", "disconnect_operation">>
Ended == mainPc \in {"exit", "aborted"}
\* The failures raised inside a call of fn with the phase flag flag.
RaisedIn(fn, flag) ==
    {i \in DOMAIN raised : raised[i].stack[1].fn = fn /\ raised[i].stack[1].flag = flag}

\* C1: the phases are attempted in the order connect, push, execute(pre), pull,
\* execute(post), disconnect; a phase is attempted only when every earlier one
\* has succeeded, and none is attempted after the first failure.
C1_PhaseOrder ==
    ~Direct =>
      /\ IsPrefix(phases, PhaseOrder)
      /\ Len(results) \in {Len(phases) - 1, Len(phases)}
      /\ \A k \in DOMAIN phases : \A j \in 1..(k - 1) : results[j].kind = "Ok"
      /\ \A k \in DOMAIN results : results[k].kind # "Ok" => Len(phases) = k

C1_Witness ==
    /\ mainPc = "exit"
    /\ Len(phases) = 4
    /\ results[4].kind = "Err"
    /\ reports = <<DownloadFailed>>

\* The lines of a script, each ended by a newline.
RECURSIVE SplitLines(_, _)
SplitLines(script, line) ==
    IF script = <<>> THEN (IF line = <<>> THEN <<>> ELSE <<line>>)
    ELSE IF Head(script) = Newline
         THEN <<line>> \o SplitLines(Tail(script), <<>>)
         ELSE SplitLines(Tail(script), Append(line, Head(script)))

\* C5: the script submitted holds exactly the commands whose flag equals
\* is_after_compilation, each once and in their original order.
C5_PhaseFilter ==
    \A j \in DOMAIN runs :
      LET Matches(c) == c.execute_after_compilation = runs[j].flag
          selected == SelectSeq(config.commands, Matches)
      IN SplitLines(runs[j].script, <<>>) = [i \in DOMAIN selected |-> selected[i].command]

C5_Witness ==
    /\ Len(config.commands) = 3
    /\ ~config.commands[1].execute_after_compilation
    /\ config.commands[2].execute_after_compilation
    /\ ~config.commands[3].execute_after_compilation
    /\ config.commands[1].command # config.commands[3].command
    /\ Len(runs) = 2
    /\ ~runs[1].flag
    /\ runs[2].flag

\* C9: every failure inside the push phase reaches main as an error value
\* returned by send_directory, and main prints the push message and ends.
C9_PushSurfaced ==
    (/\ ~Direct
     /\ Ended
     /\ RaisedIn("send_directory", FALSE) # {})
    => /\ Len(results) = 2
       /\ results[2].kind = "Err"
       /\ reports = <<CopyFailed>>

\* C10: when no transport step of execute_commands fails, the call returns Ok
\* with the captured output whatever the exit status of the script, and main
\* goes on to the next phase.
C10_ExitStatusIgnored ==
    \A j \in DOMAIN runs :
      LET k == IF runs[j].flag THEN 5 ELSE 3
      IN (/\ Len(results) >= k
          /\ \A i \in RaisedIn("execute_commands", runs[j].flag) : ~raised[i].env)
         => /\ results[k] = OkVal(runs[j].output)
            /\ Ended => Len(phases) > k

C10_Witness ==
    /\ Len(runs) >= 1
    /\ runs[1].status # 0
    /\ runs[1].output # <<>>
    /\ Len(phases) >= 4

\* The logged operations of one kind, and the calls of execute_commands that
\* have returned (the third and the fifth call of main).
OpsOf(o) == {i \in DOMAIN oplog : oplog[i].op = o}
ExecReturned == {k \in {3, 5} : Len(results) >= k}
ExecPastChannel ==
    IF stack # <<>> /\ Top.fn = "execute_commands" /\ Top.pc \notin {"retain", "channel_session"}
    THEN 1 ELSE 0

\* C11: every call of execute_commands opens one execution channel and submits
\* one script on it, however many commands match; with no matching command the
\* empty script is still submitted, and the call returns Ok when no transport
\* step fails.
C11_OneChannelOneScript ==
    ~Direct =>
      /\ Cardinality(OpsOf("channel_session")) = Cardinality(ExecReturned) + ExecPastChannel
      /\ Cardinality(OpsOf("exec")) <= Cardinality(OpsOf("channel_session"))
      /\ \A k \in ExecReturned :
           LET flag == (k = 5)
               Mine == {j \in DOMAIN runs : runs[j].flag = flag}
           IN (\A i \in RaisedIn("execute_commands", flag) : ~raised[i].env)
              => /\ results[k].kind = "Ok"
                 /\ Cardinality(Mine) = 1
                 /\ \A j \in Mine : \E i \in OpsOf("exec") : oplog[i].path = runs[j].script

C11_Witness ==
    /\ Len(config.commands) = 2
    /\ \A i \in DOMAIN config.commands : config.commands[i].execute_after_compilation
    /\ Len(results) >= 5
    /\ results[3].kind = "Ok"
    /\ results[5].kind = "Ok"
    /\ Len(runs) = 2
    /\ runs[1].script = <<>>
    /\ Len(runs[2].script) >= 4
    /\ Cardinality(OpsOf("exec")) = 2

\* C12: once the five earlier phases have succeeded, the disconnect phase
\* changes no filesystem and no script run, and main returns normally whether
\* disconnect succeeds or fails; a failure only adds the disconnect message.
C12_DisconnectHarmless ==
    [][mainPc = "disconnect_operation"
       => /\ \A k \in 1..5 : results[k].kind = "Ok"
          /\ reports = <<>>
          /\ localFs' = localFs
          /\ remoteFs' = remoteFs
          /\ runs' = runs
          /\ mainPc' # mainPc
               => /\ mainPc' = "exit"
                  /\ reports' = IF results[6].kind = "Ok" THEN <<>> ELSE <<DisconnectFailed>>]_vars

C12_Witness ==
    /\ mainPc = "exit"
    /\ Len(phases) = 6
    /\ results[6].kind = "Err"
    /\ reports = <<DisconnectFailed>>

\* The script submitted by the logged exec i has been read to its end and the
\* channel waited for and closed.
FullyClosed(i) ==
    /\ i + Len(CloseSteps) + 1 <= Len(oplog)
    /\ oplog[i + 1].op = "read_to_string"
    /\ \A n \in DOMAIN CloseSteps : oplog[i + 1 + n].op = CloseSteps[n]
\* Every transfer stream opened by the logged operation o was flushed later.
Flushed(o) ==
    \A i \in OpsOf(o) : \E j \in OpsOf("flush") : j > i /\ oplog[j].path = oplog[i].path

\* C13 as stated: once a call has returned, on whatever path, no handle of it
\* is open, and every script submitted has been read to its end and its channel
\* waited for.
C13_ScopedOnEveryPath ==
    (~Direct /\ stack = <<>>)
    => /\ open = {}
       /\ \A i \in OpsOf("exec") : FullyClosed(i)

\* C13, amended: no open handle ever belongs to a frame that has returned, on
\* the success path and on every error path; a call of execute_commands that
\* returned Ok has read the output to its end and waited for the channel to
\* close, and a transfer call that returned Ok has flushed every stream.
C13_Scoped ==
    ~Direct =>
      /\ \A o \in open : o.depth <= Len(stack)
      /\ Cardinality({i \in OpsOf("exec") : FullyClosed(i)})
           >= Cardinality({k \in ExecReturned : results[k].kind = "Ok"})
      /\ (Len(results) >= 2 /\ results[2].kind = "Ok") => Flushed("scp_send")
      /\ (Len(results) >= 4 /\ results[4].kind = "Ok") => Flushed("create")

C13_Witness ==
    /\ Len(results) = 3
    /\ results[3].kind = "Err"
    /\ \E i \in DOMAIN raised : raised[i].stack[1].pc = "read"
    /\ OpsOf("scp_send") # {}
    /\ OpsOf("wait_close") = {}
    /\ stack = <<>>
    /\ open = {}

RecvPlan == Direct /\ plan[1].fn = "receive_directory"
\* The local path lp holds what the remote path rp holds: the same kinds and
\* the same bytes.
Mirrors(lp, rp) ==
    \A x \in DOMAIN SubTree(remoteFs, rp) \cup {<<>>} :
       /\ Exists(localFs, lp \o x)
       /\ IsDir(localFs, lp \o x) = IsDir(remoteFs, rp \o x)
       /\ IsFile(remoteFs, rp \o x) => localFs[lp \o x].data = remoteFs[rp \o x].data
\* The entries the frame d of the stack st had received in full when st was
\* snapshot: those listed, neither waiting nor being received.
Received(st, d) ==
    LET f == st[d]
        busy == IF d < Len(st) THEN {st[d + 1].r[Len(st[d + 1].r)]}
                ELSE IF f.pc \in {"scp_recv", "create", "copy", "flush"} THEN {f.cur} ELSE {}
    IN IF f.pc \in {"create_dir_all", "readdir"} THEN {}
       ELSE (ChildNames(remoteFs, f.r) \ f.todo) \ busy

\* C14: when the transfer or the recursive pull of an entry fails,
\* receive_directory returns that failure at every depth, attempts no further
\* entry, and every entry received before it is still on the local disk with
\* the bytes transferred.
C14_NoRollback ==
    \A i \in DOMAIN raised :
       (Direct /\ raised[i].stack[1].fn = "receive_directory")
       => /\ i = Len(raised)
          /\ Len(oplog) = raised[i].at
          /\ stack = <<>>
          /\ results[Len(results)] = raised[i].res
          /\ raised[i].res.kind = "Err"
          /\ \A d \in DOMAIN raised[i].stack : \A n \in Received(raised[i].stack, d) :
               Mirrors(Join(raised[i].stack[d].l, n), Join(raised[i].stack[d].r, n))

C14_Witness ==
    /\ Direct
    /\ raised # <<>>
    /\ raised[1].stack[1].fn = "receive_directory"
    /\ Len(raised[1].stack) = 2
    /\ raised[1].stack[2].pc = "copy"
    /\ \E n \in Received(raised[1].stack, 1) :
         /\ IsFile(remoteFs, Join(raised[1].stack[1].r, n))
         /\ localFs[Join(raised[1].stack[1].l, n)].data # <<>>

\* The texts of the commands of the phase flag, in the order of the settings,
\* and texts joined with a newline between each two of them.
SelectedTexts(flag) ==
    LET Matches(c) == c.execute_after_compilation = flag
        selected == SelectSeq(config.commands, Matches)
    IN [i \in DOMAIN selected |-> selected[i].command]
RECURSIVE JoinLines(_)
JoinLines(texts) ==
    IF texts = <<>> THEN <<>>
    ELSE IF Len(texts) = 1 THEN texts[1]
         ELSE texts[1] \o <<Newline>> \o JoinLines(Tail(texts))

\* C15 as stated: the script submitted is the texts of the matching commands
\* joined with newline separators, in order, and nothing else; with no matching
\* command it is empty.
C15_Joined ==
    \A j \in DOMAIN runs : runs[j].script = JoinLines(SelectedTexts(runs[j].flag))

\* C15, amended: the script submitted is the texts of the matching commands in
\* order, each followed by one newline, the last one included, and nothing
\* else; with no matching command it is empty.
C15_Terminated ==
    \A j \in DOMAIN runs :
       LET texts == SelectedTexts(runs[j].flag)
       IN runs[j].script = IF texts = <<>> THEN <<>> ELSE JoinLines(texts) \o <<Newline>>

C15_Witness ==
    /\ Len(runs) = 2
    /\ Len(SelectedTexts(FALSE)) = 2
    /\ SelectedTexts(FALSE)[1] # SelectedTexts(FALSE)[2]
    /\ SelectedTexts(TRUE) = <<>>
    /\ runs[1].script[Len(runs[1].script)] = Newline
    /\ runs[2].script = <<>>

\* The operations that read the local tree, those that read the remote tree,
\* and those of an execution channel.
LocalReads == {"exists", "read_dir", "metadata", "open"}
RemoteReads == {"sftp", "stat", "readdir", "scp_recv", "read"}
ChannelOps == {"channel_session", "exec", "read_to_string"} \cup {CloseSteps[i] : i \in DOMAIN CloseSteps}
\* The operations logged by the step.
NewOps == {oplog'[i] : i \in (Len(oplog) + 1)..Len(oplog')}

\* C16: no step of send_directory changes the local tree or issues a local
\* operation other than a read; no step of receive_directory changes the remote
\* tree or issues a remote operation other than a read; no step of
\* execute_commands changes either tree or issues anything but the operations
\* of its execution channel.
C16_OneWay ==
    [][stack # <<>> =>
         /\ stack[1].fn = "send_directory"
              => /\ localFs' = localFs
                 /\ \A o \in NewOps : o.side = "local" => o.op \in LocalReads
         /\ stack[1].fn = "receive_directory"
              => /\ remoteFs' = remoteFs
                 /\ \A o \in NewOps : o.side = "remote" => o.op \in RemoteReads
         /\ stack[1].fn = "execute_commands"
              => /\ localFs' = localFs
                 /\ remoteFs' = remoteFs
                 /\ \A o \in NewOps : o.side = "remote" /\ o.op \in ChannelOps]_vars

C16_Witness ==
    /\ ~Direct
    /\ Len(results) >= 5
    /\ \A k \in 2..5 : results[k].kind = "Ok"
    /\ remoteFs # remoteFs0
    /\ \E i, j \in OpsOf("write") : oplog[i].side = "remote" /\ oplog[j].side = "local"
    /\ Cardinality(OpsOf("exec")) = 2

\* C17: every mkdir and every push stream asks for mode 0o755, and every
\* remote entry the run has created has that mode, whatever the mode of the
\* local entry it comes from.
C17_FixedMode ==
    /\ \A i \in OpsOf("mkdir") \cup OpsOf("scp_send") : oplog[i].mode = FixedMode
    /\ \A q \in DOMAIN remoteFs \ DOMAIN remoteFs0 : remoteFs[q].mode = FixedMode

C17_Witness ==
    /\ ~Direct
    /\ Len(results) >= 2
    /\ results[2].kind = "Ok"
    /\ OpsOf("mkdir") # {}
    /\ \E x, y \in DOMAIN SubTree(localFs0, config.compilation.local_project_root) :
         LET l == config.compilation.local_project_root
             r == config.compilation.remote_project_root
         IN /\ localFs0[l \o x].mode = PrivateMode
            /\ localFs0[l \o y].mode = OtherMode
            /\ r \o x \notin DOMAIN remoteFs0
            /\ r \o y \notin DOMAIN remoteFs0
            /\ IsFile(remoteFs, r \o x)
            /\ IsDir(remoteFs, r \o y)
            /\ remoteFs[r \o x].mode = FixedMode
            /\ remoteFs[r \o y].mode = FixedMode

\* The frames of send_directory that are past the stat and the make_dirs of
\* their remote path: those listing entries, sending one, or with a recursive
\* call above them.
SendPastStat == {d \in SendFrames(stack) : stack[d].pc \in {"loop", "scp_send", "copy", "flush"}}

\* C18: whenever send_directory is sending a child of remote_path or has
\* recursed into one, remote_path is a remote directory, and the same call
\* has stat'ed or made it before; every push stream was opened after a stat or
\* a mkdir of the directory it writes into.
C18_ParentFirst ==
    /\ \A d \in SendPastStat :
         /\ IsDir(remoteFs, stack[d].r)
         /\ \E j \in OpsOf("stat") \cup OpsOf("mkdir") : oplog[j].path = stack[d].r
    /\ \A i \in OpsOf("scp_send") :
         \E j \in OpsOf("stat") \cup OpsOf("mkdir") :
            j < i /\ oplog[j].path = Parent(oplog[i].path)

C18_Witness ==
    /\ Len(stack) = 2
    /\ SendPastStat = {1, 2}
    /\ stack[2].pc = "copy"
    /\ ~Exists(remoteFs0, stack[1].r)
    /\ \E i, j \in OpsOf("mkdir") : oplog[i].path = stack[1].r /\ oplog[j].path = stack[2].r

(***************************************************************************)
(* The destination of a transfer, under SpecSync.                          *)
(***************************************************************************)
\* The call of receive_directory of the plan: its last call, unless the plan
\* is of make_dirs.
PullCall == plan[Len(plan)]
PullReturnedOk == Len(results) = Len(plan) /\ results[Len(plan)] = Ok
\* The entry q below the destination root has a file of the same name below
\* the root from of the source filesystem src.
HasSourceFile(q, dest, src, from) ==
    /\ IsPrefix(dest, q)
    /\ Len(q) > Len(dest)
    /\ IsFile(src, from \o SubSeq(q, Len(dest) + 1, Len(q)))
\* Every entry of old is an entry of the same kind of new.
Kept(old, new) == \A q \in DOMAIN old : q \in DOMAIN new /\ new[q].kind = old[q].kind

\* C19: a push and a pull remove and rename nothing on either side; an entry
\* of the destination with no file of the same name in the source is left as
\* it was; and after a call that returned Ok every file of the source is a
\* destination file with exactly the bytes of the source, none of the old
\* content left.
C19_Additive ==
    (SendPlan \/ RecvPlan) =>
      /\ Kept(remoteFs0, remoteFs)
      /\ Kept(localFs0, localFs)
      /\ RecvPlan => remoteFs = remoteFs0
      /\ SendPlan =>
           /\ \A q \in DOMAIN remoteFs0 :
                ~HasSourceFile(q, plan[1].r, localFs0, plan[1].l) => remoteFs[q] = remoteFs0[q]
           /\ (Len(results) >= 1 /\ results[1] = Ok) =>
                \A x \in DOMAIN SubTree(localFs0, plan[1].l) :
                   IsFile(localFs0, plan[1].l \o x) =>
                      /\ IsFile(remoteFs, plan[1].r \o x)
                      /\ remoteFs[plan[1].r \o x].data = localFs0[plan[1].l \o x].data
      /\ \A q \in DOMAIN localFs0 :
           ~HasSourceFile(q, PullCall.l, remoteFs, PullCall.r) => localFs[q] = localFs0[q]
      /\ PullReturnedOk =>
           \A x \in DOMAIN SubTree(remoteFs, PullCall.r) :
              IsFile(remoteFs, PullCall.r \o x) =>
                 /\ IsFile(localFs, PullCall.l \o x)
                 /\ localFs[PullCall.l \o x].data = remoteFs[PullCall.r \o x].data

C19_Witness ==
    /\ RecvPlan
    /\ results = <<Ok>>
    /\ \E x, y \in Names :
         LET q == Join(plan[1].l, x)
             k == Join(plan[1].l, y)
         IN /\ IsFile(localFs0, q)
            /\ Len(localFs0[q].data) > Len(OldData)
            /\ IsFile(remoteFs, Join(plan[1].r, x))
            /\ localFs[q].data = OldData
            /\ IsFile(localFs0, k)
            /\ ~Exists(remoteFs, Join(plan[1].r, y))
            /\ localFs[k] = localFs0[k]

====
